---- MODULE Spec2Model ----
(***************************************************************************)
(* A model of vqa/dataset/sample.py: the Question, Answer and Image        *)
(* entities and the VQASample aggregate with its get_input / get_output    *)
(* encoding contract.                                                      *)
(*                                                                         *)
(* One world holds at most one object of each class.  Every method of the  *)
(* source is an operator that maps the receiver (and the arguments) to a   *)
(* result record [status, at, self, ...]: status is "ok" or the name of    *)
(* the Python exception that leaves the method, at is the place that       *)
(* raised it, self is the receiver after the call.  Every action applies   *)
(* one such operator to the world and records the call in `last`.          *)
(***************************************************************************)
EXTENDS Integers, Sequences, FiniteSets, TLC

VARIABLES
    question,     \* the Question object (exists = FALSE before construction)
    answer,       \* the Answer object
    image,        \* the Image object
    sample,       \* the VQASample object
    nDecode,      \* number of imread calls made so far (instance ids of arrays)
    qSupplied,    \* history: the tokenizer most recently supplied to the Question
    aSupplied,    \* history: the tokenizer most recently supplied to the Answer
    last          \* the most recent call: operation, arguments and outcome

vars == <<question, answer, image, sample, nDecode, qSupplied, aSupplied, last>>

---------------------------------------------------------------------------
(* Bounds of the model.                                                    *)

\* at most this many imread calls are explored
MaxDecodes == 2
\* question_max_len ranges over 1 .. MaxLen
MaxLen == 2

---------------------------------------------------------------------------
(* Python values passed as id / linked id / vocab_size arguments.          *)

IntVal(n) == [t |-> "int", v |-> n, s |-> <<>>]
\* a float, held in tenths: FloatVal(25) is 2.5
FloatVal(tenths) == [t |-> "float", v |-> tenths, s |-> <<>>]
\* a str, held as its sequence of characters
StrVal(cs) == [t |-> "str", v |-> 0, s |-> cs]
NoneVal == [t |-> "NoneType", v |-> 0, s |-> <<>>]

DigitChars == {"0", "1", "2", "3", "4", "5", "6", "7", "8", "9"}

DigitValue(c) ==
    CASE c = "0" -> 0 [] c = "1" -> 1 [] c = "2" -> 2 [] c = "3" -> 3
      [] c = "4" -> 4 [] c = "5" -> 5 [] c = "6" -> 6 [] c = "7" -> 7
      [] c = "8" -> 8 [] c = "9" -> 9

RECURSIVE DigitsValue(_)
\* the number a non-empty string of decimal digits denotes
DigitsValue(cs) ==
    IF Len(cs) = 0 THEN 0
    ELSE 10 * DigitsValue(SubSeq(cs, 1, Len(cs) - 1)) + DigitValue(cs[Len(cs)])

AllDigits(cs) == Len(cs) > 0 /\ \A i \in 1..Len(cs) : cs[i] \in DigitChars

\* int(x) of Python: [ok, v]; ok = FALSE when int() raises (ValueError for a
\* str that is no integer literal, TypeError for None)
PyInt(x) ==
    CASE x.t = "int" -> [ok |-> TRUE, v |-> x.v]
      [] x.t = "float" ->
            \* truncation towards zero
            [ok |-> TRUE,
             v |-> IF x.v >= 0 THEN x.v \div 10 ELSE -((-x.v) \div 10)]
      [] x.t = "str" ->
            IF AllDigits(x.s) THEN [ok |-> TRUE, v |-> DigitsValue(x.s)]
            ELSE IF Len(x.s) > 1 /\ x.s[1] \in {"-", "+"} /\ AllDigits(Tail(x.s))
            THEN [ok |-> TRUE,
                  v |-> IF x.s[1] = "-" THEN -DigitsValue(Tail(x.s))
                        ELSE DigitsValue(Tail(x.s))]
            ELSE [ok |-> FALSE, v |-> 0]
      [] OTHER -> [ok |-> FALSE, v |-> 0]

---------------------------------------------------------------------------
(* The tokenizer service (keras.preprocessing.text.Tokenizer).  A text is  *)
(* held as its sequence of words; a fitted tokenizer is its word_index.    *)

\* the objects passed as a tokenizer argument: None, two fitted Tokenizer
\* instances, and an object that is truthy but no Tokenizer (a str)
Tokenizers == {"T1", "T2"}
TokenizerArgs == {"None", "T1", "T2", "str"}

\* word_index of a fitted tokenizer; 0 marks a word it does not know
WordIndex(tok, w) ==
    CASE tok = "T1" ->
            (CASE w = "what" -> 3 [] w = "color" -> 4 [] w = "dark" -> 2
               [] w = "red" -> 1 [] OTHER -> 0)
      [] tok = "T2" -> (CASE w = "red" -> 4 [] OTHER -> 0)
      [] OTHER -> 0

RECURSIVE TextToSequence(_, _)
\* the indices of the known words of one text, in order; unknown words are skipped
TextToSequence(tok, text) ==
    IF Len(text) = 0 THEN <<>>
    ELSE LET rest == TextToSequence(tok, Tail(text))
             i == WordIndex(tok, Head(text))
         IN IF i = 0 THEN rest ELSE <<i>> \o rest

\* Tokenizer.texts_to_sequences(texts): one index sequence per text
texts_to_sequences(tok, texts) ==
    [k \in 1..Len(texts) |-> TextToSequence(tok, texts[k])]

\* the truth value of a tokenizer argument (`if tokenizer:`)
TokenizerTruthy(tok) == tok # "None"

\* isinstance(tokenizer, Tokenizer)
IsTokenizer(tok) == tok \in Tokenizers

---------------------------------------------------------------------------
(* Question and Answer.                                                    *)

\* the slot of a Question that is not constructed
NoQuestion ==
    [exists |-> FALSE, id |-> 0, image_id |-> 0, vocab_size |-> 0,
     question |-> <<>>, tokens_idx |-> <<>>,
     has_tokenizer |-> FALSE, tokenizer |-> "None"]

\* the slot of an Answer that is not constructed
NoAnswer ==
    [exists |-> FALSE, id |-> 0, question_id |-> 0, vocab_size |-> 0,
     answer |-> <<>>, tokens_idx |-> <<>>,
     has_tokenizer |-> FALSE, tokenizer |-> "None"]

\* a call that returns: the receiver after it and the returned token list
Returned(self, ret) == [status |-> "ok", at |-> "", self |-> self, ret |-> ret]

\* a call left by exception exc, raised at place at
Raised(exc, at, self) == [status |-> exc, at |-> at, self |-> self, ret |-> <<>>]

\* Question.__init__
Question_init(question_id, text, image_id, vocab_size, tokenizer) ==
    LET rid == PyInt(question_id)
        rim == PyInt(image_id)
        rvs == PyInt(vocab_size)
        obj == [exists |-> TRUE, id |-> rid.v, image_id |-> rim.v,
                vocab_size |-> rvs.v, question |-> text, tokens_idx |-> <<>>,
                has_tokenizer |-> FALSE, tokenizer |-> "None"]
    IN  \* lines 112-117: int(question_id) raises, or the value is negative
        IF ~rid.ok \/ rid.v < 0 THEN Raised("ValueError", "question_id", NoQuestion)
        \* lines 120-125: int(image_id) raises; the sign test reads self.id
        ELSE IF ~rim.ok \/ rid.v < 0 THEN Raised("ValueError", "image_id", NoQuestion)
        \* lines 128-133
        ELSE IF ~rvs.ok \/ rvs.v < 0 THEN Raised("ValueError", "vocab_size", NoQuestion)
        \* line 139: no tokenizer given, the attribute tokenizer is never set
        ELSE IF ~TokenizerTruthy(tokenizer) THEN Returned(obj, <<>>)
        \* line 144
        ELSE IF ~IsTokenizer(tokenizer) THEN Raised("TypeError", "tokenizer", NoQuestion)
        \* lines 141-142
        ELSE Returned([obj EXCEPT !.has_tokenizer = TRUE, !.tokenizer = tokenizer,
                           !.tokens_idx = texts_to_sequences(tokenizer, <<text>>)[1]],
                      <<>>)

\* Answer.__init__
Answer_init(answer_id, text, question_id, vocab_size, tokenizer) ==
    LET rid == PyInt(answer_id)
        rqi == PyInt(question_id)
        rvs == PyInt(vocab_size)
        obj == [exists |-> TRUE, id |-> rid.v, question_id |-> rqi.v,
                vocab_size |-> rvs.v, answer |-> text, tokens_idx |-> <<>>,
                has_tokenizer |-> FALSE, tokenizer |-> "None"]
    IN  \* lines 196-201
        IF ~rid.ok \/ rid.v < 0 THEN Raised("ValueError", "answer_id", NoAnswer)
        \* lines 204-209: the sign test reads self.id
        ELSE IF ~rqi.ok \/ rid.v < 0 THEN Raised("ValueError", "question_id", NoAnswer)
        \* lines 212-217
        ELSE IF ~rvs.ok \/ rvs.v < 0 THEN Raised("ValueError", "vocab_size", NoAnswer)
        \* line 223
        ELSE IF ~TokenizerTruthy(tokenizer) THEN Returned(obj, <<>>)
        \* line 228
        ELSE IF ~IsTokenizer(tokenizer) THEN Raised("TypeError", "tokenizer", NoAnswer)
        \* lines 225-226
        ELSE Returned([obj EXCEPT !.has_tokenizer = TRUE, !.tokenizer = tokenizer,
                           !.tokens_idx = texts_to_sequences(tokenizer, <<text>>)[1]],
                      <<>>)

\* a faulty variant of Question_tokenize: an explicit tokenizer is used but not stored
Question_tokenize_forgets(self, tokenizer) ==
    IF TokenizerTruthy(tokenizer) THEN
        IF ~IsTokenizer(tokenizer) THEN Raised("AttributeError", "texts_to_sequences", self)
        ELSE LET toks == texts_to_sequences(tokenizer, <<self.question>>)[1]
             IN Returned([self EXCEPT !.tokens_idx = toks], toks)
    ELSE IF ~self.has_tokenizer THEN Raised("AttributeError", "self.tokenizer", self)
    ELSE IF TokenizerTruthy(self.tokenizer) THEN
        IF ~IsTokenizer(self.tokenizer)
        THEN Raised("AttributeError", "texts_to_sequences", self)
        ELSE LET toks == texts_to_sequences(self.tokenizer, <<self.question>>)[1]
             IN Returned([self EXCEPT !.tokens_idx = toks], toks)
    ELSE Raised("TypeError", "no tokenizer", self)

\* Question.tokenize
Question_tokenize(self, tokenizer) ==
    IF TokenizerTruthy(tokenizer) THEN
        \* lines 158-159: the argument is stored first, then used
        LET stored == [self EXCEPT !.has_tokenizer = TRUE, !.tokenizer = tokenizer]
        IN  IF ~IsTokenizer(tokenizer)
            THEN Raised("AttributeError", "texts_to_sequences", stored)
            ELSE LET toks == texts_to_sequences(tokenizer, <<self.question>>)[1]
                 IN Returned([stored EXCEPT !.tokens_idx = toks], toks)
    \* line 160: reading self.tokenizer when __init__ never set it
    ELSE IF ~self.has_tokenizer THEN Raised("AttributeError", "self.tokenizer", self)
    ELSE IF TokenizerTruthy(self.tokenizer) THEN
        \* line 161
        IF ~IsTokenizer(self.tokenizer)
        THEN Raised("AttributeError", "texts_to_sequences", self)
        ELSE LET toks == texts_to_sequences(self.tokenizer, <<self.question>>)[1]
             IN Returned([self EXCEPT !.tokens_idx = toks], toks)
    \* lines 163-164
    ELSE Raised("TypeError", "no tokenizer", self)

\* Question.get_tokens
Question_get_tokens(self) == Returned(self, self.tokens_idx)

\* Question.get_tokens_length
Question_get_tokens_length(self) == Len(self.tokens_idx)

\* Answer.tokenize
Answer_tokenize(self, tokenizer) ==
    IF TokenizerTruthy(tokenizer) THEN
        \* lines 242-243
        LET stored == [self EXCEPT !.has_tokenizer = TRUE, !.tokenizer = tokenizer]
        IN  IF ~IsTokenizer(tokenizer)
            THEN Raised("AttributeError", "texts_to_sequences", stored)
            ELSE LET toks == texts_to_sequences(tokenizer, <<self.answer>>)[1]
                 IN Returned([stored EXCEPT !.tokens_idx = toks], toks)
    \* line 244: reading self.tokenizer when __init__ never set it
    ELSE IF ~self.has_tokenizer THEN Raised("AttributeError", "self.tokenizer", self)
    ELSE IF TokenizerTruthy(self.tokenizer) THEN
        \* line 245
        IF ~IsTokenizer(self.tokenizer)
        THEN Raised("AttributeError", "texts_to_sequences", self)
        ELSE LET toks == texts_to_sequences(self.tokenizer, <<self.answer>>)[1]
             IN Returned([self EXCEPT !.tokens_idx = toks], toks)
    \* lines 247-248
    ELSE Raised("TypeError", "no tokenizer", self)

\* Answer.get_tokens
Answer_get_tokens(self) == Returned(self, self.tokens_idx)

---------------------------------------------------------------------------
(* Arrays and the two library calls made on them.  An array is its shape   *)
(* and its elements in row-major order; inst tells one array object from   *)
(* another with the same elements.                                         *)

\* the empty Python list that Image.__init__ puts in _image
EmptyList == [inst |-> 0, dtype |-> "list", shape |-> <<0>>, px |-> <<>>]

\* bool(x) of a list or a NumPy array: "True", "False", or "ValueError" for an
\* array of more than one element, whose truth value is ambiguous
Truth(x) ==
    IF x.dtype = "list" THEN (IF Len(x.px) > 0 THEN "True" ELSE "False")
    ELSE IF Len(x.px) = 0 THEN "False"
    ELSE IF Len(x.px) = 1 THEN (IF x.px[1] # 0 THEN "True" ELSE "False")
    ELSE "ValueError"

\* the files of the file system and what imread decodes from each: a 1x2 RGB
\* image, a 1x1 black and a 1x1 white greyscale image
ImageFiles == {"rgb.jpg", "black.png", "white.png"}
ImagePaths == ImageFiles \cup {"missing.jpg"}

\* os.path.isfile
isfile(path) == path \in ImageFiles

\* scipy.misc.imread(path): a new uint8 array, the n-th array decoded
imread(path, n) ==
    CASE path = "rgb.jpg" ->
            [inst |-> n, dtype |-> "uint8", shape |-> <<1, 2, 3>>,
             px |-> <<200, 30, 0, 0, 90, 255>>]
      [] path = "black.png" ->
            [inst |-> n, dtype |-> "uint8", shape |-> <<1, 1>>, px |-> <<0>>]
      [] OTHER ->
            [inst |-> n, dtype |-> "uint8", shape |-> <<1, 1>>, px |-> <<255>>]

\* ndarray.astype(data_type)
astype(arr, data_type) == [arr EXCEPT !.dtype = data_type]

DataTypes == {"float32"}

---------------------------------------------------------------------------
(* Image.                                                                  *)

NoImage == [exists |-> FALSE, image_id |-> 0, image_path |-> "", image |-> EmptyList]

\* Image.__init__
Image_init(image_id, image_path) ==
    IF isfile(image_path)
    THEN [status |-> "ok", at |-> "",
          self |-> [exists |-> TRUE, image_id |-> image_id,
                    image_path |-> image_path, image |-> EmptyList]]
    ELSE [status |-> "ValueError", at |-> "image_path", self |-> NoImage]

\* Image.load, the (n+1)-th decode
Image_load(self, data_type, mem, n) ==
    LET img == astype(imread(self.image_path, n + 1), data_type)
    IN  [status |-> "ok", at |-> "",
         self |-> IF mem THEN [self EXCEPT !.image = img] ELSE self,
         ret |-> img, n |-> n + 1]

\* a faulty variant of Image_get_image_array: it loads without looking at the cache
Image_get_image_array_reloads(self, mem, n) == Image_load(self, "float32", mem, n)

\* Image.get_image_array
Image_get_image_array(self, mem, n) ==
    LET t == Truth(self.image)
    IN  \* line 286: the truth value of an array of several elements
        IF t = "ValueError"
        THEN [status |-> "ValueError", at |-> "if self._image", self |-> self,
              ret |-> EmptyList, n |-> n]
        \* line 287
        ELSE IF t = "True"
        THEN [status |-> "ok", at |-> "", self |-> self, ret |-> self.image, n |-> n]
        \* line 289
        ELSE Image_load(self, "float32", mem, n)

---------------------------------------------------------------------------
(* keras pad_sequences and the NumPy calls of get_output.                  *)

RECURSIVE Zeros(_)
\* n zeros
Zeros(n) == IF n <= 0 THEN <<>> ELSE <<0>> \o Zeros(n - 1)

\* one row of pad_sequences(maxlen) with the defaults padding='pre',
\* truncating='pre', value=0: the last maxlen elements, zeros in front
PadRow(s, maxlen) ==
    IF Len(s) >= maxlen THEN SubSeq(s, Len(s) - maxlen + 1, Len(s))
    ELSE Zeros(maxlen - Len(s)) \o s

RECURSIVE Flatten(_)
\* the rows of a two-dimensional array in row-major order
Flatten(rows) == IF Len(rows) = 0 THEN <<>> ELSE Head(rows) \o Flatten(Tail(rows))

\* pad_sequences(sequences, maxlen).  sequences is a Python list: nested = TRUE
\* when its items are lists, FALSE when its items are ints.  The function
\* starts with lengths = [len(s) for s in sequences], which raises TypeError on
\* an int; a list with no item gives an array of shape (0, maxlen).
pad_sequences(nested, items, maxlen) ==
    IF ~nested /\ Len(items) > 0
    THEN [status |-> "TypeError", at |-> "len(s)", shape |-> <<0>>, px |-> <<>>]
    ELSE IF nested /\ maxlen = 0 /\ \E k \in 1..Len(items) : Len(items[k]) > 0
    \* s[-0:] is all of s, which does not fit a row of no element
    THEN [status |-> "ValueError", at |-> "x[idx, -len(trunc):]",
          shape |-> <<0>>, px |-> <<>>]
    ELSE [status |-> "ok", at |-> "", shape |-> <<Len(items), maxlen>>,
          px |-> IF nested
                 THEN Flatten([k \in 1..Len(items) |-> PadRow(items[k], maxlen)])
                 ELSE <<>>]

\* a faulty variant of NpSetItem: an index past the end wraps around
NpSetItem_wraps(arr, idx, value) ==
    IF Len(arr) = 0 THEN [status |-> "IndexError", arr |-> arr]
    ELSE [status |-> "ok", arr |-> [arr EXCEPT ![(idx % Len(arr)) + 1] = value]]

\* arr[idx] = value on a one-dimensional NumPy array: idx counts from 0, a
\* negative idx counts from the end, anything else is an IndexError
NpSetItem(arr, idx, value) ==
    IF idx >= Len(arr) \/ idx < -Len(arr) THEN [status |-> "IndexError", arr |-> arr]
    ELSE [status |-> "ok",
          arr |-> [arr EXCEPT ![(IF idx >= 0 THEN idx ELSE idx + Len(arr)) + 1] = value]]

---------------------------------------------------------------------------
(* VQASample.                                                              *)

\* the values of the enumeration DatasetType
DatasetType == {"TRAIN", "VALIDATION", "TEST"}

NoSample ==
    [exists |-> FALSE, question |-> "None", image |-> "None",
     has_answer |-> FALSE, sample_type |-> "None"]

\* a faulty variant of VQASample_init: the answer is not looked at
VQASample_init_unchecked(question_arg, image_arg, answer_arg, dataset_type) ==
    IF question_arg # "Question"
    THEN [status |-> "TypeError", at |-> "question", self |-> NoSample]
    ELSE IF image_arg # "Image"
    THEN [status |-> "TypeError", at |-> "image", self |-> NoSample]
    ELSE IF dataset_type \notin DatasetType
    THEN [status |-> "TypeError", at |-> "dataset_type", self |-> NoSample]
    ELSE [status |-> "ok", at |-> "",
          self |-> [exists |-> TRUE, question |-> question_arg, image |-> image_arg,
                    has_answer |-> FALSE, sample_type |-> dataset_type]]

\* VQASample.__init__.  An argument is the class name of the object passed
\* ("Question", "Answer", "Image", "None" for None), so isinstance(x, C) is x = C.
VQASample_init(question_arg, image_arg, answer_arg, dataset_type) ==
    \* lines 32-35
    IF question_arg # "Question"
    THEN [status |-> "TypeError", at |-> "question", self |-> NoSample]
    \* lines 38-42
    ELSE IF dataset_type # "TEST" /\ answer_arg # "Answer"
    THEN [status |-> "TypeError", at |-> "answer", self |-> NoSample]
    \* lines 45-48
    ELSE IF image_arg # "Image"
    THEN [status |-> "TypeError", at |-> "image", self |-> NoSample]
    \* lines 51-54
    ELSE IF dataset_type \notin DatasetType
    THEN [status |-> "TypeError", at |-> "dataset_type", self |-> NoSample]
    ELSE [status |-> "ok", at |-> "",
          self |-> [exists |-> TRUE, question |-> question_arg, image |-> image_arg,
                    has_answer |-> dataset_type # "TEST",
                    sample_type |-> dataset_type]]

\* lines 75-80 of get_input on array arr: imresize, the in-place mean
\* subtraction and the transpose.  The outcomes the installed libraries can
\* give: a greyscale array has no third axis to index; on a colour array the
\* in-place subtraction of a float from what imresize returns is accepted or
\* refused depending on the NumPy release.
PrepareOutcomes(arr) ==
    IF Len(arr.shape) = 3 THEN {"ok", "TypeError"} ELSE {"IndexError"}

\* VQASample.get_input.  q and img are the objects self.question and
\* self.image; n counts the decodes so far; outcome is the outcome of lines 75-80.
VQASample_get_input(self, q, img, question_max_len, mem, n, outcome) ==
    LET \* line 70
        tokens == Question_get_tokens(q).ret
        \* line 71: the token list itself is passed, a list of ints
        padded == pad_sequences(FALSE, tokens, question_max_len)
        \* line 74
        got == Image_get_image_array(img, mem, n)
    IN  IF padded.status # "ok"
        THEN [status |-> padded.status, at |-> padded.at, image |-> img, n |-> n,
              qshape |-> <<0>>, qpx |-> <<>>, ishape |-> <<0>>]
        ELSE IF got.status # "ok"
        THEN [status |-> got.status, at |-> got.at, image |-> got.self, n |-> got.n,
              qshape |-> <<0>>, qpx |-> <<>>, ishape |-> <<0>>]
        ELSE IF outcome # "ok"
        THEN [status |-> outcome, at |-> "image[:, :, 2] -=", image |-> got.self,
              n |-> got.n, qshape |-> <<0>>, qpx |-> <<>>, ishape |-> <<0>>]
        ELSE [status |-> "ok", at |-> "", image |-> got.self, n |-> got.n,
              qshape |-> padded.shape, qpx |-> padded.px, ishape |-> <<3, 224, 224>>]

\* a faulty variant of VQASample_get_output: the last token is used, not the first
VQASample_get_output_last_token(self, ans) ==
    IF self.sample_type = "TEST" THEN [status |-> "TypeError", at |-> "TEST", ret |-> <<>>]
    ELSE LET tokens == Answer_get_tokens(ans).ret
         IN  IF Len(tokens) = 0
             THEN [status |-> "IndexError", at |-> "answer[0]", ret |-> <<>>]
             ELSE LET set == NpSetItem(Zeros(ans.vocab_size), tokens[Len(tokens)], 1)
                  IN  IF set.status # "ok"
                      THEN [status |-> set.status, at |-> "answer[idx]", ret |-> <<>>]
                      ELSE [status |-> "ok", at |-> "", ret |-> set.arr]

\* a faulty variant of VQASample_get_output: the split is not looked at
VQASample_get_output_any_split(self, ans) ==
    LET tokens == Answer_get_tokens(ans).ret
    IN  IF Len(tokens) = 0
        THEN [status |-> "IndexError", at |-> "answer[0]", ret |-> <<>>]
        ELSE LET set == NpSetItem(Zeros(ans.vocab_size), tokens[1], 1)
             IN  IF set.status # "ok"
                 THEN [status |-> set.status, at |-> "answer[idx]", ret |-> <<>>]
                 ELSE [status |-> "ok", at |-> "", ret |-> set.arr]

\* VQASample.get_output.  ans is the object self.answer.
VQASample_get_output(self, ans) ==
    \* lines 85-86
    IF self.sample_type = "TEST" THEN [status |-> "TypeError", at |-> "TEST", ret |-> <<>>]
    ELSE LET \* line 88
             tokens == Answer_get_tokens(ans).ret
         IN  \* line 90: answer[0] of an empty list
             IF Len(tokens) = 0
             THEN [status |-> "IndexError", at |-> "answer[0]", ret |-> <<>>]
             ELSE LET \* lines 92-93
                      set == NpSetItem(Zeros(ans.vocab_size), tokens[1], 1)
                  IN  IF set.status # "ok"
                      THEN [status |-> set.status, at |-> "answer[idx]", ret |-> <<>>]
                      ELSE [status |-> "ok", at |-> "", ret |-> set.arr]

---------------------------------------------------------------------------
(* The calls.  `last` holds the call just made: op names the method, arg   *)
(* its tokenizer or mem argument, len its question_max_len, nums the id    *)
(* arguments of a text constructor, args the arguments of VQASample; then  *)
(* the outcome: status and at, the returned list or array (shape, data)    *)
(* and, for a returned image array, its instance.                          *)

NoCall ==
    [op |-> "none", arg |-> "", len |-> 0, nums |-> <<>>, args |-> <<>>,
     status |-> "ok", at |-> "", shape |-> <<0>>, data |-> <<>>, inst |-> 0]

BoolArg(b) == IF b THEN "True" ELSE "False"

\* Question(question_id, text, image_id, vocab_size, tokenizer)
QuestionInit(question_id, text, image_id, vocab_size, tokenizer) ==
    /\ ~question.exists
    /\ LET r == Question_init(question_id, text, image_id, vocab_size, tokenizer)
       IN  /\ question' = r.self
           /\ qSupplied' = IF r.status = "ok" /\ TokenizerTruthy(tokenizer)
                           THEN tokenizer ELSE qSupplied
           /\ last' = [NoCall EXCEPT !.op = "Question", !.arg = tokenizer,
                           !.nums = <<question_id, image_id, vocab_size>>,
                           !.status = r.status, !.at = r.at]
    /\ UNCHANGED <<answer, image, sample, nDecode, aSupplied>>

\* question.tokenize(tokenizer)
QuestionTokenize(tokenizer) ==
    /\ question.exists
    /\ LET r == Question_tokenize(question, tokenizer)
       IN  /\ question' = r.self
           /\ qSupplied' = IF TokenizerTruthy(tokenizer) THEN tokenizer ELSE qSupplied
           /\ last' = [NoCall EXCEPT !.op = "Question.tokenize", !.arg = tokenizer,
                           !.status = r.status, !.at = r.at,
                           !.shape = <<Len(r.ret)>>, !.data = r.ret]
    /\ UNCHANGED <<answer, image, sample, nDecode, aSupplied>>

\* question.get_tokens()
QuestionGetTokens ==
    /\ question.exists
    /\ LET r == Question_get_tokens(question)
       IN  last' = [NoCall EXCEPT !.op = "Question.get_tokens",
                        !.shape = <<Len(r.ret)>>, !.data = r.ret]
    /\ UNCHANGED <<question, answer, image, sample, nDecode, qSupplied, aSupplied>>

\* question.get_tokens_length()
QuestionGetTokensLength ==
    /\ question.exists
    /\ last' = [NoCall EXCEPT !.op = "Question.get_tokens_length",
                    !.len = Question_get_tokens_length(question)]
    /\ UNCHANGED <<question, answer, image, sample, nDecode, qSupplied, aSupplied>>

\* Answer(answer_id, text, question_id, vocab_size, tokenizer)
AnswerInit(answer_id, text, question_id, vocab_size, tokenizer) ==
    /\ ~answer.exists
    /\ LET r == Answer_init(answer_id, text, question_id, vocab_size, tokenizer)
       IN  /\ answer' = r.self
           /\ aSupplied' = IF r.status = "ok" /\ TokenizerTruthy(tokenizer)
                           THEN tokenizer ELSE aSupplied
           /\ last' = [NoCall EXCEPT !.op = "Answer", !.arg = tokenizer,
                           !.nums = <<answer_id, question_id, vocab_size>>,
                           !.status = r.status, !.at = r.at]
    /\ UNCHANGED <<question, image, sample, nDecode, qSupplied>>

\* answer.tokenize(tokenizer)
AnswerTokenize(tokenizer) ==
    /\ answer.exists
    /\ LET r == Answer_tokenize(answer, tokenizer)
       IN  /\ answer' = r.self
           /\ aSupplied' = IF TokenizerTruthy(tokenizer) THEN tokenizer ELSE aSupplied
           /\ last' = [NoCall EXCEPT !.op = "Answer.tokenize", !.arg = tokenizer,
                           !.status = r.status, !.at = r.at,
                           !.shape = <<Len(r.ret)>>, !.data = r.ret]
    /\ UNCHANGED <<question, image, sample, nDecode, qSupplied>>

\* answer.get_tokens()
AnswerGetTokens ==
    /\ answer.exists
    /\ LET r == Answer_get_tokens(answer)
       IN  last' = [NoCall EXCEPT !.op = "Answer.get_tokens",
                        !.shape = <<Len(r.ret)>>, !.data = r.ret]
    /\ UNCHANGED <<question, answer, image, sample, nDecode, qSupplied, aSupplied>>

\* Image(image_id, image_path)
ImageInit(image_id, image_path) ==
    /\ ~image.exists
    /\ LET r == Image_init(image_id, image_path)
       IN  /\ image' = r.self
           /\ last' = [NoCall EXCEPT !.op = "Image", !.arg = image_path,
                           !.status = r.status, !.at = r.at]
    /\ UNCHANGED <<question, answer, sample, nDecode, qSupplied, aSupplied>>

\* image.load(data_type, mem)
ImageLoad(data_type, mem) ==
    /\ image.exists
    /\ nDecode < MaxDecodes
    /\ LET r == Image_load(image, data_type, mem, nDecode)
       IN  /\ image' = r.self
           /\ nDecode' = r.n
           /\ last' = [NoCall EXCEPT !.op = "load", !.arg = BoolArg(mem),
                           !.status = r.status, !.at = r.at,
                           !.shape = r.ret.shape, !.data = r.ret.px,
                           !.inst = r.ret.inst]
    /\ UNCHANGED <<question, answer, sample, qSupplied, aSupplied>>

\* image.get_image_array(mem)
ImageGetImageArray(mem) ==
    /\ image.exists
    /\ LET r == Image_get_image_array(image, mem, nDecode)
       IN  /\ r.n <= MaxDecodes
           /\ image' = r.self
           /\ nDecode' = r.n
           /\ last' = [NoCall EXCEPT !.op = "get_image_array", !.arg = BoolArg(mem),
                           !.status = r.status, !.at = r.at,
                           !.shape = r.ret.shape, !.data = r.ret.px,
                           !.inst = r.ret.inst]
    /\ UNCHANGED <<question, answer, sample, qSupplied, aSupplied>>

\* the objects at hand to pass to VQASample, named by their class
Objects ==
    {"None"} \cup (IF question.exists THEN {"Question"} ELSE {})
             \cup (IF answer.exists THEN {"Answer"} ELSE {})
             \cup (IF image.exists THEN {"Image"} ELSE {})

\* VQASample(question, image, answer, dataset_type)
SampleInit(question_arg, image_arg, answer_arg, dataset_type) ==
    /\ ~sample.exists
    /\ {question_arg, image_arg, answer_arg} \subseteq Objects
    /\ LET r == VQASample_init(question_arg, image_arg, answer_arg, dataset_type)
       IN  /\ sample' = r.self
           /\ last' = [NoCall EXCEPT !.op = "VQASample",
                           !.args = <<question_arg, image_arg, answer_arg, dataset_type>>,
                           !.status = r.status, !.at = r.at]
    /\ UNCHANGED <<question, answer, image, nDecode, qSupplied, aSupplied>>

\* what lines 75-80 can do in a get_input call made now
GetInputOutcomes(mem) ==
    LET got == Image_get_image_array(image, mem, nDecode)
    IN  IF got.status = "ok" THEN PrepareOutcomes(got.ret) ELSE {"ok"}

\* sample.get_input(question_max_len, mem)
SampleGetInput(question_max_len, mem) ==
    /\ sample.exists
    /\ \E outcome \in GetInputOutcomes(mem) :
         LET r == VQASample_get_input(sample, question, image, question_max_len,
                                      mem, nDecode, outcome)
         IN  /\ r.n <= MaxDecodes
             /\ image' = r.image
             /\ nDecode' = r.n
             /\ last' = [NoCall EXCEPT !.op = "get_input", !.arg = BoolArg(mem),
                             !.len = question_max_len,
                             !.status = r.status, !.at = r.at,
                             !.shape = r.qshape, !.data = r.qpx]
    /\ UNCHANGED <<question, answer, sample, qSupplied, aSupplied>>

\* sample.get_output()
SampleGetOutput ==
    /\ sample.exists
    /\ LET r == VQASample_get_output(sample, answer)
       IN  last' = [NoCall EXCEPT !.op = "get_output",
                        !.status = r.status, !.at = r.at,
                        !.shape = <<Len(r.ret)>>, !.data = r.ret]
    /\ UNCHANGED <<question, answer, image, sample, nDecode, qSupplied, aSupplied>>

---------------------------------------------------------------------------
(* Specifications.                                                         *)

\* nothing is constructed yet
Init ==
    /\ question = NoQuestion
    /\ answer = NoAnswer
    /\ image = NoImage
    /\ sample = NoSample
    /\ nDecode = 0
    /\ qSupplied = "None"
    /\ aSupplied = "None"
    /\ last = NoCall

\* the texts and the tokenizers passed to tokenize (None or a fitted Tokenizer)
QuestionText == <<"what", "color", "dark", "red">>
AnswerText == <<"dark", "red">>
AnswerVocabSizes == {IntVal(2), IntVal(5)}
TokenizeArgs == {"None", "T1", "T2"}

\* the life cycle of one sample: the objects are built from well-formed ids,
\* tokenized in any order, and the sample is asked for its input and output
Next ==
    \/ \E tok \in {"None", "T1"} :
         QuestionInit(IntVal(1), QuestionText, IntVal(10), IntVal(5), tok)
    \/ \E tok \in TokenizeArgs : QuestionTokenize(tok)
    \/ \E vs \in AnswerVocabSizes, tok \in {"None", "T1"} :
         AnswerInit(IntVal(1), AnswerText, IntVal(1), vs, tok)
    \/ \E tok \in TokenizeArgs : AnswerTokenize(tok)
    \/ \E path \in {"rgb.jpg", "missing.jpg"} : ImageInit(10, path)
    \/ \E q \in {"Question", "None"}, i \in {"Image", "None"},
          a \in {"Answer", "None", "Question"}, dt \in DatasetType \cup {"str"} :
         SampleInit(q, i, a, dt)
    \/ \E len \in 1..MaxLen, mem \in BOOLEAN : SampleGetInput(len, mem)
    \/ SampleGetOutput

Spec == Init /\ [][Next]_vars

\* the life cycle of the two text entities, with every kind of tokenizer argument
NextText ==
    \/ \E tok \in TokenizerArgs :
         QuestionInit(IntVal(1), QuestionText, IntVal(10), IntVal(5), tok)
    \/ \E tok \in TokenizerArgs : QuestionTokenize(tok)
    \/ QuestionGetTokens
    \/ QuestionGetTokensLength
    \/ \E tok \in TokenizerArgs :
         AnswerInit(IntVal(1), AnswerText, IntVal(1), IntVal(5), tok)
    \/ \E tok \in TokenizerArgs : AnswerTokenize(tok)
    \/ AnswerGetTokens

SpecText == Init /\ [][NextText]_vars

\* the life cycle of an image, used directly and through a sample's get_input
NextImage ==
    \/ \E path \in ImagePaths : ImageInit(10, path)
    \/ \E dt \in DataTypes, mem \in BOOLEAN : ImageLoad(dt, mem)
    \/ \E mem \in BOOLEAN : ImageGetImageArray(mem)
    \/ \E tok \in {"None", "T1"} :
         QuestionInit(IntVal(1), QuestionText, IntVal(10), IntVal(5), tok)
    \/ SampleInit("Question", "Image", "None", "TEST")
    \/ \E len \in 1..MaxLen, mem \in BOOLEAN : SampleGetInput(len, mem)

SpecImage == Init /\ [][NextImage]_vars

\* the values tried as id, linked id and vocab_size of a text constructor
PyVals ==
    {IntVal(-1), IntVal(0), IntVal(7), FloatVal(25), FloatVal(-5),
     StrVal(<<"1", "2">>), StrVal(<<"a">>), NoneVal}

\* one constructor call on a world with no object, from any values
NextCtor ==
    \/ /\ last.op = "none"
       /\ \E id \in PyVals, linked \in PyVals, vs \in PyVals, tok \in TokenizerArgs :
            QuestionInit(id, <<"red">>, linked, vs, tok)
    \/ /\ last.op = "none"
       /\ \E id \in PyVals, linked \in PyVals, vs \in PyVals, tok \in TokenizerArgs :
            AnswerInit(id, <<"red">>, linked, vs, tok)

SpecCtor == Init /\ [][NextCtor]_vars

---------------------------------------------------------------------------
(* The claims.                                                             *)

\* a non-negative integer, as the constructors' contract asks for
IsNonNegInteger(x) == x.t = "int" /\ x.v >= 0

\* C1: a Question or Answer constructor call (with no tokenizer or a fitted
\* one) succeeds when id, linked id and vocab_size are all non-negative
\* integers, and fails with ValueError, producing no entity, when any one of
\* them is negative or is not an integer.
C1_ConstructionValidates ==
    (last.op \in {"Question", "Answer"} /\ last.arg \in {"None"} \cup Tokenizers) =>
        LET valid == \A i \in 1..3 : IsNonNegInteger(last.nums[i])
            built == IF last.op = "Question" THEN question.exists ELSE answer.exists
        IN  /\ valid => (last.status = "ok" /\ built)
            /\ ~valid => (last.status = "ValueError" /\ ~built)

\* C2: a VQASample call with a Question and an Image, for TRAIN or VALIDATION,
\* succeeds exactly when answer is an Answer and otherwise fails with
\* TypeError; for TEST it succeeds whatever is passed as answer and attaches
\* no answer.  So every sample whose split is not TEST holds an Answer.
C2_AnswerRequiredUnlessTest ==
    /\ (sample.exists /\ sample.sample_type # "TEST") =>
           (sample.has_answer /\ answer.exists)
    /\ (last.op = "VQASample" /\ last.args[1] = "Question" /\ last.args[2] = "Image"
          /\ last.args[4] \in DatasetType) =>
           IF last.args[4] # "TEST"
           THEN /\ (last.status = "ok") <=> (last.args[3] = "Answer")
                /\ (last.status = "ok") <=> sample.exists
                /\ last.status \in {"ok", "TypeError"}
           ELSE last.status = "ok" /\ sample.exists /\ ~sample.has_answer

\* C2, witness: a TEST sample was built with an Answer passed, and holds none
C2_Witness ==
    /\ last.op = "VQASample" /\ last.args[4] = "TEST" /\ last.args[3] = "Answer"
    /\ sample.exists /\ ~sample.has_answer

\* C3: get_output on a TEST sample always fails with the TypeError of line 86
\* and returns no vector, whatever was done to the sample's objects before.
C3_TestHasNoOutput ==
    (last.op = "get_output" /\ sample.sample_type = "TEST") =>
        (last.status = "TypeError" /\ last.at = "TEST" /\ last.data = <<>>)

\* C3, witness: get_output was called on a TEST sample although an Answer is
\* tokenized and a get_input call has loaded the image
C3_Witness ==
    /\ last.op = "get_output" /\ sample.exists /\ sample.sample_type = "TEST"
    /\ answer.exists /\ answer.tokens_idx # <<>>
    /\ nDecode > 0

\* the vector of length n that is 1 at position idx (counted from 0), 0 elsewhere
OneHot(n, idx) == [i \in 1..n |-> IF i = idx + 1 THEN 1 ELSE 0]

\* C4 as claimed: on every sample that is not TEST, get_output returns the
\* one-hot vector of the answer's first token index.
C4_OneHotAlways ==
    (last.op = "get_output" /\ sample.sample_type # "TEST") =>
        /\ last.status = "ok"
        /\ last.data = OneHot(answer.vocab_size, answer.tokens_idx[1])

\* C4 as amended: on a sample that is not TEST whose answer has a token list
\* that is not empty and starts with an index below vocab_size, get_output
\* returns a vector of length vocab_size with exactly one 1, at the first
\* token index; later tokens play no part.
C4_OneHot ==
    (last.op = "get_output" /\ sample.sample_type # "TEST"
       /\ Len(answer.tokens_idx) > 0 /\ answer.tokens_idx[1] < answer.vocab_size) =>
        /\ last.status = "ok"
        /\ Len(last.data) = answer.vocab_size
        /\ last.data = OneHot(answer.vocab_size, answer.tokens_idx[1])
        /\ Cardinality({i \in 1..Len(last.data) : last.data[i] = 1}) = 1

\* C4, witness: get_output returned for an answer of two different tokens
C4_Witness ==
    /\ last.op = "get_output" /\ last.status = "ok"
    /\ Len(answer.tokens_idx) = 2 /\ answer.tokens_idx[1] # answer.tokens_idx[2]

\* C5: on a sample that is not TEST whose answer's first token index is
\* vocab_size or more, get_output fails with IndexError and returns no vector.
C5_IndexOutOfRange ==
    (last.op = "get_output" /\ sample.sample_type # "TEST"
       /\ Len(answer.tokens_idx) > 0 /\ answer.tokens_idx[1] >= answer.vocab_size) =>
        (last.status = "IndexError" /\ last.data = <<>>)

\* C5, witness: get_output was called with the first token index equal to
\* vocab_size
C5_Witness ==
    /\ last.op = "get_output" /\ sample.exists /\ sample.sample_type # "TEST"
    /\ Len(answer.tokens_idx) > 0 /\ answer.tokens_idx[1] = answer.vocab_size

\* the question vector the padding law asks for: L - len(T) zeros and then T,
\* or the last L elements of T
PaddingLaw(T, L) ==
    IF Len(T) <= L THEN [i \in 1..L |-> IF i <= L - Len(T) THEN 0 ELSE T[i - (L - Len(T))]]
    ELSE [i \in 1..L |-> T[Len(T) - L + i]]

\* C6: unless it fails on the image, get_input(L) returns as question vector
\* the token list of the question padded or cut to exactly L elements.
C6_PaddingLaw ==
    (last.op = "get_input" /\ last.at \notin {"if self._image", "image[:, :, 2] -="}) =>
        /\ last.status = "ok"
        /\ last.shape = <<last.len>>
        /\ last.data = PaddingLaw(question.tokens_idx, last.len)

\* C7: tokenize() with no argument, on a Question or Answer to which no
\* tokenizer was ever supplied, fails with the TypeError of lines 163 / 247
\* (no tokenizer available) and leaves the token list empty.
C7_NoTokenizerError ==
    /\ (last.op = "Question.tokenize" /\ last.arg = "None" /\ qSupplied = "None") =>
           (last.status = "TypeError" /\ last.at = "no tokenizer"
              /\ question.tokens_idx = <<>>)
    /\ (last.op = "Answer.tokenize" /\ last.arg = "None" /\ aSupplied = "None") =>
           (last.status = "TypeError" /\ last.at = "no tokenizer"
              /\ answer.tokens_idx = <<>>)

Cached == image.exists /\ image.image.dtype # "list"

\* C9: a get_image_array(mem=True) call on an image whose array is cached
\* succeeds and returns the cached array itself, without another decode.
C9_CachedGetIsIdempotent ==
    [][(Cached /\ last'.op = "get_image_array" /\ last'.arg = "True") =>
           /\ last'.status = "ok"
           /\ last'.inst = image.image.inst
           /\ nDecode' = nDecode
           /\ image' = image]_vars

====
